---- MODULE Spec2Model ----
(***************************************************************************)
(* Model of SFMCAPIService (src/src/sfmc-api.ts): the cached OAuth token,  *)
(* getAccessToken, makeRequest, and the asynchronous calls that interleave *)
(* on one client instance.  Time is in milliseconds, as Date is.  Strings  *)
(* are sequences of text fragments, so that concatenation and substring    *)
(* containment are computed and not assumed.                               *)
(***************************************************************************)
EXTENDS Integers, Sequences, FiniteSets, TLC

(* ------------------------------ bounds -------------------------------- *)

\* number of calls issued on the client
NumCalls == 2
\* the clock stops advancing past this instant (ms)
MaxTime == 1200000
\* the clock advances at most this many times
MaxTicks == 3

Calls == 1..NumCalls

(* ------------------------- program constants -------------------------- *)

\* `response.data.expires_in || 1140`
DefaultExpiresIn == 1140
\* `(expiresInSeconds - 60) * 1000`
SafetyMargin == 60
MsPerSecond == 1000
\* `private tokenExpiration: Date | null = null`
NullDate == -1

\* `private accessToken: string | null = null`, and a missing JSON field
Null == "<null>"
Undefined == "<undefined>"

(* ------------------------------ strings ------------------------------- *)

\* substring containment on fragment sequences
Contains(s, sub) ==
    \E i \in 0..(Len(s) - Len(sub)) :
        \A j \in 1..Len(sub) : s[i + j] = sub[j]

\* String.prototype.toLowerCase on the method names that are given
ToLowerCase(m) ==
    CASE m \in {"GET", "Get", "get"} -> "get"
      [] m \in {"POST", "Post", "post"} -> "post"
      [] m \in {"PUT", "Put", "put"} -> "put"
      [] m \in {"PATCH", "Patch", "patch"} -> "patch"
      [] m \in {"DELETE", "Delete", "delete"} -> "delete"
      [] OTHER -> m

(* --------------------------- JSON values ------------------------------ *)

JUndefined == [t |-> "undefined", k |-> "", s |-> ""]
JString(s) == [t |-> "string", k |-> "", s |-> s]
JObject(k, s) == [t |-> "object", k |-> k, s |-> s]

\* JavaScript truthiness of a JSON value
JTruthy(v) == v.t = "object" \/ (v.t = "string" /\ v.s # "")

\* JSON.stringify, as rendered inside a template literal
JSONstringify(v) ==
    CASE v.t = "object" -> <<"{\"", v.k, "\":\"", v.s, "\"}">>
      [] v.t = "string" -> <<"\"", v.s, "\"">>
      [] OTHER -> <<"undefined">>

(* ---------------------------- axios errors ---------------------------- *)

\* an error thrown by axios for a non-2xx response
HttpError(status, data) ==
    [hasResponse |-> TRUE, status |-> status, data |-> data,
     message |-> <<"Request failed with status code ", ToString(status)>>]

\* an error without a response: network failure, timeout, or a plain Error
PlainError(message) ==
    [hasResponse |-> FALSE, status |-> 0, data |-> JUndefined,
     message |-> message]

(* ---------------------------- proxy config ---------------------------- *)
(* A proxy URL is a sequence of fragments: scheme, "://", host, ":", and the *)
(* characters of the port, one fragment each.                              *)

DigitValue(ch) ==
    CASE ch = "0" -> 0 [] ch = "1" -> 1 [] ch = "2" -> 2 [] ch = "3" -> 3
      [] ch = "4" -> 4 [] ch = "5" -> 5 [] ch = "6" -> 6 [] ch = "7" -> 7
      [] ch = "8" -> 8 [] ch = "9" -> 9 [] OTHER -> -1

DigitChar(n) ==
    CASE n = 0 -> "0" [] n = 1 -> "1" [] n = 2 -> "2" [] n = 3 -> "3"
      [] n = 4 -> "4" [] n = 5 -> "5" [] n = 6 -> "6" [] n = 7 -> "7"
      [] n = 8 -> "8" [] OTHER -> "9"

\* parseInt of a string of decimal digits
RECURSIVE ParseInt(_)
ParseInt(digits) ==
    IF digits = <<>> THEN 0
    ELSE 10 * ParseInt(SubSeq(digits, 1, Len(digits) - 1)) + DigitValue(digits[Len(digits)])

\* a number as its decimal digits
RECURSIVE Decimal(_)
Decimal(n) == IF n < 10 THEN <<DigitChar(n)>> ELSE Decimal(n \div 10) \o <<DigitChar(n % 10)>>

\* the port a scheme implies, which URL leaves out of url.port
DefaultPort(scheme) == IF scheme = "https" THEN 443 ELSE 80

NotAUrl == [ok |-> FALSE, protocol |-> <<>>, hostname |-> "", port |-> <<>>]

\* `new URL(proxyUrl)`: ok is FALSE where the constructor throws
ParseUrl(s) ==
    IF Len(s) >= 3 /\ s[1] \in {"http", "https"} /\ s[2] = "://"
    THEN LET digits == SubSeq(s, 5, Len(s))
             url(port) == [ok |-> TRUE, protocol |-> <<s[1], ":">>,
                           hostname |-> s[3], port |-> port]
         IN IF s[3] = "" THEN NotAUrl
            ELSE IF Len(s) = 3 THEN url(<<>>)
            ELSE IF s[4] # ":" THEN NotAUrl
            ELSE IF \E i \in 1..Len(digits) : DigitValue(digits[i]) < 0 THEN NotAUrl
            ELSE IF digits = <<>> THEN url(<<>>)
            ELSE IF ParseInt(digits) > 65535 THEN NotAUrl
            ELSE IF ParseInt(digits) = DefaultPort(s[1]) THEN url(<<>>)
            ELSE url(Decimal(ParseInt(digits)))
    ELSE IF Len(s) >= 2 /\ s[1] # "" /\ s[2] = ":"
    THEN \* no "//": s[1] is read as the scheme, the rest as an opaque path
         [ok |-> TRUE, protocol |-> <<s[1], ":">>, hostname |-> "", port |-> <<>>]
    ELSE NotAUrl

\* `url.protocol.replace(':', '')`
StripColon(protocol) ==
    IF \E i \in 1..Len(protocol) : protocol[i] = ":"
    THEN LET i == CHOOSE i \in 1..Len(protocol) :
                    protocol[i] = ":" /\ \A j \in 1..(i - 1) : protocol[j] # ":"
         IN SubSeq(protocol, 1, i - 1) \o SubSeq(protocol, i + 1, Len(protocol))
    ELSE protocol

\* `undefined`, as createProxyConfig returns it
NoProxy == [thrown |-> FALSE, set |-> FALSE, host |-> "", port |-> 0, protocol |-> <<>>]

\* createProxyConfig
CreateProxyConfig(proxyUrl) ==
    IF proxyUrl = <<>> THEN NoProxy
    ELSE LET url == ParseUrl(proxyUrl)
         IN IF ~url.ok THEN NoProxy
            ELSE [thrown |-> FALSE, set |-> TRUE,
                  host |-> url.hostname,
                  port |-> ParseInt(IF url.port # <<>> THEN url.port ELSE <<"8", "0">>),
                  protocol |-> StripColon(url.protocol)]

\* the constructor: this.config, and the proxy option given to axios.create
NewClient(proxyUrl) ==
    [constructed |-> TRUE, proxy |-> proxyUrl, axiosProxy |-> CreateProxyConfig(proxyUrl)]

(* ------------------------------ the state ----------------------------- *)

VARIABLES
    client,           \* this.config.proxy and the proxy of this.axiosInstance
    accessToken,      \* this.accessToken
    tokenExpiration,  \* this.tokenExpiration, ms since the epoch, or NullDate
    now,              \* the wall clock, ms
    ticks,            \* how many times the clock has advanced
    calls,            \* the asynchronous calls on the client, by call id
    tokenRequests,    \* POSTs sent to {authBaseUri}/v2/token so far
    tokenResponses,   \* 2xx answers of the token endpoint handled so far
    cacheSrc          \* which token response wrote each cached field

vars == <<client, accessToken, tokenExpiration, now, ticks, calls, tokenRequests,
          tokenResponses, cacheSrc>>

\* config.restBaseUri
RestBaseUri == <<"https://", "rest.example.com">>

NoArgs == [method |-> "", endpoint |-> <<>>, data |-> JUndefined, envelope |-> <<>>]
NoConfig == [method |-> "", url |-> <<>>, authorization |-> <<>>, data |-> JUndefined,
             body |-> <<>>]
NoOutcome == [kind |-> "none", value |-> <<>>]
NoData == [access_token |-> Undefined]
\* what a call last received from upstream: nothing yet, a 2xx answer (ok), or
\* the error axios raised
NoAnswer == [from |-> "none", ok |-> FALSE, err |-> PlainError(<<>>)]

IdleCall ==
    [pc |-> "idle", kind |-> "", args |-> NoArgs, config |-> NoConfig,
     outcome |-> NoOutcome, tokReqs |-> 0, restReqs |-> 0, received |-> NoAnswer]

Init ==
    /\ client = NewClient(<<>>)
    /\ accessToken = Null
    /\ tokenExpiration = NullDate
    /\ now = 0
    /\ ticks = 0
    /\ calls = [c \in Calls |-> IdleCall]
    /\ tokenRequests = 0
    /\ tokenResponses = 0
    /\ cacheSrc = [token |-> 0, expiry |-> 0, at |-> 0, data |-> NoData]

(* --------------------------- getAccessToken --------------------------- *)

\* JavaScript truthiness of a string | null | undefined
Truthy(s) == s \notin {Null, Undefined, ""}

\* CacheValid with the comparison turned around
CacheValidInverted ==
    /\ Truthy(accessToken)
    /\ tokenExpiration # NullDate
    /\ tokenExpiration < now

\* CacheValid with `>=` for `>`
CacheValidInclusive ==
    /\ Truthy(accessToken)
    /\ tokenExpiration # NullDate
    /\ tokenExpiration >= now

\* `this.accessToken && this.tokenExpiration && this.tokenExpiration > new Date()`
CacheValid ==
    /\ Truthy(accessToken)
    /\ tokenExpiration # NullDate
    /\ tokenExpiration > now

\* ExpiresInSeconds with the usual 20 minutes as the default
ExpiresInSecondsDefault1200(data) ==
    IF "expires_in" \in DOMAIN data /\ data.expires_in # 0
    THEN data.expires_in
    ELSE 1200

\* `response.data.expires_in || 1140`
ExpiresInSeconds(data) ==
    IF "expires_in" \in DOMAIN data /\ data.expires_in # 0
    THEN data.expires_in
    ELSE DefaultExpiresIn

\* `new Date(Date.now() + (expiresInSeconds - 60) * 1000)`
NewExpiration(data) == now + (ExpiresInSeconds(data) - SafetyMargin) * MsPerSecond

\* the catch block of getAccessToken: the message of the Error it throws
AuthErrorMessage(err) ==
    IF err.hasResponse /\ JTruthy(err.data)
    THEN <<"SFMC Authentication Error: ">> \o JSONstringify(err.data)
    ELSE IF err.message # <<>>
    THEN <<"SFMC Authentication Error: ">> \o err.message
    ELSE <<"SFMC Authentication Error: ", "{}">>

(* ----------------------------- makeRequest ---------------------------- *)

\* RequestUrl without the base
RequestUrlNoBase(endpoint) == endpoint

\* `${this.config.restBaseUri}${endpoint}`
RequestUrl(endpoint) == RestBaseUri \o endpoint

\* AttachBody without the test of the method
AttachBodyAnyMethod(method, data) == JTruthy(data)

\* `data && (method.toLowerCase() === 'post' || ... 'put' || ... 'patch')`
AttachBody(method, data) ==
    JTruthy(data) /\ ToLowerCase(method) \in {"post", "put", "patch"}

\* the AxiosRequestConfig built by makeRequest
BuildConfig(args, token) ==
    [method |-> ToLowerCase(args.method),
     url |-> RequestUrl(args.endpoint),
     authorization |-> <<"Bearer ", token>>,
     data |-> IF AttachBody(args.method, args.data) THEN args.data ELSE JUndefined,
     body |-> <<>>]

\* ApiErrorMessage with one message for every failure
ApiErrorMessageGeneric(err) == <<"SFMC API request failed">>

\* the catch block of makeRequest: the message of the Error it throws
ApiErrorMessage(err) ==
    IF err.hasResponse
    THEN <<"SFMC API error (", ToString(err.status), "): ">> \o JSONstringify(err.data)
    ELSE <<"SFMC API request failed: ">> \o err.message

(* --------------------------- makeSoapRequest -------------------------- *)
(* index.ts calls sfmcClient.makeSoapRequest, which sfmc-api.ts does not     *)
(* define; what follows is the SOAP dispatch as the specification states it. *)
(* An envelope is a sequence of tags and texts.                              *)

OpenTag(p, n) == [k |-> "open", p |-> p, n |-> n]
CloseTag(p, n) == [k |-> "close", p |-> p, n |-> n]
Text(s) == [k |-> "text", p |-> "", n |-> s]

\* `<fueloauth>{token}</fueloauth>`
FuelOAuth(token) == <<OpenTag("", "fueloauth"), Text(token), CloseTag("", "fueloauth")>>

\* an opening tag whose name, after any namespace prefix, is `name`
IsOpen(t, name) == t.k = "open" /\ t.n = name

\* the text after the first opening tag named `name` receives `inserted`
InsertAfterFirst(envelope, name, inserted) ==
    LET i == CHOOSE i \in 1..Len(envelope) :
                /\ IsOpen(envelope[i], name)
                /\ \A j \in 1..(i - 1) : ~IsOpen(envelope[j], name)
    IN SubSeq(envelope, 1, i) \o inserted \o SubSeq(envelope, i + 1, Len(envelope))

\* InjectAuth that always synthesizes a header
InjectAuthAlwaysNewHeader(envelope, token) ==
    IF \E i \in 1..Len(envelope) : IsOpen(envelope[i], "Envelope")
    THEN InsertAfterFirst(envelope, "Envelope",
            <<OpenTag("soapenv", "Header")>> \o FuelOAuth(token)
                \o <<CloseTag("soapenv", "Header")>>)
    ELSE envelope

\* auth injection: into the existing header, else into a synthesized header that
\* becomes the first child of the envelope
InjectAuth(envelope, token) ==
    IF \E i \in 1..Len(envelope) : IsOpen(envelope[i], "Header")
    THEN InsertAfterFirst(envelope, "Header", FuelOAuth(token))
    ELSE IF \E i \in 1..Len(envelope) : IsOpen(envelope[i], "Envelope")
    THEN InsertAfterFirst(envelope, "Envelope",
            <<OpenTag("soapenv", "Header")>> \o FuelOAuth(token)
                \o <<CloseTag("soapenv", "Header")>>)
    ELSE envelope

\* the SOAP POST: the mutated envelope, and no Authorization header
SoapDispatch(call, token) ==
    [call EXCEPT !.pc = "awaitSoap",
                 !.config = [NoConfig EXCEPT !.method = "post",
                                             !.body = InjectAuth(call.args.envelope, token)],
                 !.restReqs = @ + 1]

\* the message of the SoapError: status, then the StatusMessage found in the body
SoapErrorMessage(err) ==
    IF err.hasResponse
    THEN <<"SOAP request failed (", ToString(err.status), "): ", err.data.s>>
    ELSE err.message

(* ------------------------- steps of one call -------------------------- *)

Answer(from, ok, err) == [from |-> from, ok |-> ok, err |-> err]

Return(call, value) ==
    [call EXCEPT !.pc = "done", !.outcome = [kind |-> "return", value |-> value]]

Throw(call, message) ==
    [call EXCEPT !.pc = "done", !.outcome = [kind |-> "throw", value |-> message]]

\* AuthFailed with one message for every failure
AuthFailedGeneric(call, err) ==
    Throw(call, <<"SFMC API request failed">>)

\* getAccessToken has thrown `err` (already wrapped by its catch block): a direct
\* caller receives it, makeRequest's catch block wraps it once more
AuthFailed(call, err) ==
    IF call.kind = "makeRequest"
    THEN Throw(call, ApiErrorMessage(PlainError(AuthErrorMessage(err))))
    ELSE Throw(call, AuthErrorMessage(err))

\* getAccessToken has returned `token`: a direct caller receives it, makeRequest
\* builds its config and sends the REST request
GotToken(call, token) ==
    IF call.kind = "makeRequest"
    THEN [call EXCEPT !.pc = "awaitRest",
                      !.config = BuildConfig(call.args, token),
                      !.restReqs = @ + 1]
    ELSE IF call.kind = "makeSoapRequest"
    THEN SoapDispatch(call, token)
    ELSE Return(call, <<token>>)

\* the synchronous head of getAccessToken: the cache check, then either the
\* cached token or the POST to the token endpoint
EnterGetAccessToken(c, call) ==
    IF CacheValid
    THEN /\ calls' = [calls EXCEPT ![c] = GotToken(call, accessToken)]
         /\ UNCHANGED tokenRequests
    ELSE /\ calls' = [calls EXCEPT ![c] = [call EXCEPT !.pc = "awaitToken",
                                                        !.tokReqs = @ + 1]]
         /\ tokenRequests' = tokenRequests + 1

\* a caller invokes getAccessToken()
CallGetAccessToken(c) ==
    /\ calls[c].pc = "idle"
    /\ EnterGetAccessToken(c, [calls[c] EXCEPT !.kind = "getAccessToken"])
    /\ UNCHANGED <<client, accessToken, tokenExpiration, now, ticks, tokenResponses, cacheSrc>>

\* a caller invokes makeRequest(method, endpoint, data)
CallMakeRequest(c, method, endpoint, data) ==
    /\ calls[c].pc = "idle"
    /\ EnterGetAccessToken(c, [calls[c] EXCEPT
            !.kind = "makeRequest",
            !.args = [method |-> method, endpoint |-> endpoint, data |-> data,
                      envelope |-> <<>>]])
    /\ UNCHANGED <<client, accessToken, tokenExpiration, now, ticks, tokenResponses, cacheSrc>>

\* TokenResponse that stores the new token and keeps the old expiry
TornTokenResponse(c, data) ==
    /\ calls[c].pc = "awaitToken"
    /\ accessToken' = data.access_token
    /\ tokenExpiration' = IF tokenExpiration = NullDate THEN NewExpiration(data)
                          ELSE tokenExpiration
    /\ tokenResponses' = tokenResponses + 1
    /\ cacheSrc' = IF tokenExpiration = NullDate
                   THEN [token |-> tokenResponses', expiry |-> tokenResponses',
                         at |-> now, data |-> data]
                   ELSE [cacheSrc EXCEPT !.token = tokenResponses']
    /\ LET call == [calls[c] EXCEPT !.received = Answer("token", TRUE, PlainError(<<>>))]
       IN calls' = [calls EXCEPT ![c] =
            IF ~Truthy(data.access_token)
            THEN AuthFailed(call, PlainError(<<"No access token received from SFMC">>))
            ELSE GotToken(call, data.access_token)]
    /\ UNCHANGED <<client, now, ticks, tokenRequests>>

\* a caller invokes makeSoapRequest(soapAction, soapBody)
CallMakeSoapRequest(c, envelope) ==
    /\ calls[c].pc = "idle"
    /\ EnterGetAccessToken(c, [calls[c] EXCEPT
            !.kind = "makeSoapRequest", !.args = [NoArgs EXCEPT !.envelope = envelope]])
    /\ UNCHANGED <<client, accessToken, tokenExpiration, now, ticks, tokenResponses, cacheSrc>>

\* the SOAP endpoint answers 2xx with the text `xml`
SoapResponse(c, xml) ==
    /\ calls[c].pc = "awaitSoap"
    /\ calls' = [calls EXCEPT ![c] =
            Return([calls[c] EXCEPT !.received = Answer("soap", TRUE, PlainError(<<>>))],
                   <<xml>>)]
    /\ UNCHANGED <<client, accessToken, tokenExpiration, now, ticks, tokenRequests,
                   tokenResponses, cacheSrc>>

\* the SOAP endpoint answers non-2xx, or does not answer
SoapFailure(c, err) ==
    /\ calls[c].pc = "awaitSoap"
    /\ calls' = [calls EXCEPT ![c] =
            Throw([calls[c] EXCEPT !.received = Answer("soap", FALSE, err)],
                  SoapErrorMessage(err))]
    /\ UNCHANGED <<client, accessToken, tokenExpiration, now, ticks, tokenRequests,
                   tokenResponses, cacheSrc>>

\* the token endpoint answers 2xx with `data`
TokenResponse(c, data) ==
    /\ calls[c].pc = "awaitToken"
    /\ accessToken' = data.access_token
    /\ tokenExpiration' = NewExpiration(data)
    /\ tokenResponses' = tokenResponses + 1
    /\ cacheSrc' = [token |-> tokenResponses', expiry |-> tokenResponses',
                    at |-> now, data |-> data]
    /\ LET call == [calls[c] EXCEPT !.received = Answer("token", TRUE, PlainError(<<>>))]
       IN calls' = [calls EXCEPT ![c] =
            IF ~Truthy(data.access_token)
            THEN AuthFailed(call, PlainError(<<"No access token received from SFMC">>))
            ELSE GotToken(call, data.access_token)]
    /\ UNCHANGED <<client, now, ticks, tokenRequests>>

\* the token endpoint answers non-2xx, or does not answer at all
TokenFailure(c, err) ==
    /\ calls[c].pc = "awaitToken"
    /\ calls' = [calls EXCEPT ![c] =
            AuthFailed([calls[c] EXCEPT !.received = Answer("token", FALSE, err)], err)]
    /\ UNCHANGED <<client, accessToken, tokenExpiration, now, ticks, tokenRequests,
                   tokenResponses, cacheSrc>>

\* the REST endpoint answers 2xx with `data`
RestResponse(c, data) ==
    /\ calls[c].pc = "awaitRest"
    /\ calls' = [calls EXCEPT ![c] =
            Return([calls[c] EXCEPT !.received = Answer("rest", TRUE, PlainError(<<>>))],
                   <<data>>)]
    /\ UNCHANGED <<client, accessToken, tokenExpiration, now, ticks, tokenRequests,
                   tokenResponses, cacheSrc>>

\* RestFailure that answers a 401 by asking for a new token and trying again
RestFailureRetrying(c, err) ==
    /\ calls[c].pc = "awaitRest"
    /\ IF err.hasResponse /\ err.status = 401
       THEN /\ calls' = [calls EXCEPT ![c] =
                    [calls[c] EXCEPT !.pc = "awaitToken", !.tokReqs = @ + 1,
                                     !.received = Answer("rest", FALSE, err)]]
            /\ tokenRequests' = tokenRequests + 1
       ELSE /\ calls' = [calls EXCEPT ![c] =
                    Throw([calls[c] EXCEPT !.received = Answer("rest", FALSE, err)],
                          ApiErrorMessage(err))]
            /\ UNCHANGED tokenRequests
    /\ UNCHANGED <<client, accessToken, tokenExpiration, now, ticks,
                   tokenResponses, cacheSrc>>

\* RestFailure that drops the cached token
RestFailureInvalidating(c, err) ==
    /\ calls[c].pc = "awaitRest"
    /\ calls' = [calls EXCEPT ![c] =
            Throw([calls[c] EXCEPT !.received = Answer("rest", FALSE, err)],
                  ApiErrorMessage(err))]
    /\ accessToken' = Null
    /\ tokenExpiration' = NullDate
    /\ UNCHANGED <<client, now, ticks, tokenRequests, tokenResponses, cacheSrc>>

\* the REST endpoint answers non-2xx, does not answer, or the 30 s timeout fires
RestFailure(c, err) ==
    /\ calls[c].pc = "awaitRest"
    /\ calls' = [calls EXCEPT ![c] =
            Throw([calls[c] EXCEPT !.received = Answer("rest", FALSE, err)],
                  ApiErrorMessage(err))]
    /\ UNCHANGED <<client, accessToken, tokenExpiration, now, ticks, tokenRequests,
                   tokenResponses, cacheSrc>>

\* time passes
Tick(d) ==
    /\ ticks < MaxTicks
    /\ now + d <= MaxTime
    /\ now' = now + d
    /\ ticks' = ticks + 1
    /\ UNCHANGED <<client, accessToken, tokenExpiration, calls, tokenRequests,
                   tokenResponses, cacheSrc>>

(* ------------------------------- inputs ------------------------------- *)

\* call ids are handed out in the order the calls are made
InOrder(c) == \A b \in Calls : b < c => calls[b].pc # "idle"

\* no call is between its invocation and its completion
Quiet == \A c \in Calls : calls[c].pc \in {"idle", "done"}

Steps == {60 * MsPerSecond, 1020 * MsPerSecond}

Tokens == {"tokA", "tokB"}

\* bodies of 2xx answers of the token endpoint
TokenDatas ==
    {[access_token |-> t] : t \in Tokens \cup {Undefined}}
    \cup {[access_token |-> t, expires_in |-> e] : t \in Tokens, e \in {0, 120, 1200}}

TokenErrors ==
    { HttpError(401, JObject("error", "invalid_client")),
      HttpError(503, JUndefined),
      PlainError(<<"timeout of 10000ms exceeded">>) }

RestErrors ==
    { HttpError(401, JObject("message", "invalid token")),
      HttpError(500, JUndefined),
      PlainError(<<"timeout of 30000ms exceeded">>) }

Methods == {"GET", "get", "POST", "Put", "patch", "DELETE"}
Endpoints == {<<"/", "data/v1/foo">>, <<"data/v1/foo">>}
Bodies == {JUndefined, JObject("name", "x")}
RestDatas == {"rows"}

(* ------ Spec: calls that interleave on one client, few input values ---- *)

Next ==
    \/ \E c \in Calls : InOrder(c) /\ CallGetAccessToken(c)
    \/ \E c \in Calls : InOrder(c) /\
            CallMakeRequest(c, "GET", <<"/", "data/v1/foo">>, JUndefined)
    \/ \E c \in Calls, data \in {[access_token |-> "tokA", expires_in |-> 1200],
                                 [access_token |-> "tokB"],
                                 [access_token |-> Undefined]} :
            TokenResponse(c, data)
    \/ \E c \in Calls : TokenFailure(c, HttpError(401, JObject("error", "invalid_client")))
    \/ \E c \in Calls, data \in RestDatas : RestResponse(c, data)
    \/ \E c \in Calls, err \in {HttpError(401, JObject("message", "invalid token")),
                                PlainError(<<"timeout of 30000ms exceeded">>)} :
            RestFailure(c, err)
    \/ \E d \in Steps : Tick(d)

Spec == Init /\ [][Next]_vars

(* ---- SpecTtl: getAccessToken calls one after another, every lifetime --- *)

NextTtl ==
    \/ \E c \in Calls : InOrder(c) /\ Quiet /\ CallGetAccessToken(c)
    \/ \E c \in Calls, data \in TokenDatas : TokenResponse(c, data)
    \/ \E d \in Steps : Tick(d)

SpecTtl == Init /\ [][NextTtl]_vars

(* ------- SpecOne: a single call, every argument and every failure ------ *)

NextOne ==
    \/ CallGetAccessToken(1)
    \/ \E m \in Methods, e \in Endpoints, d \in Bodies : CallMakeRequest(1, m, e, d)
    \/ \E data \in TokenDatas : TokenResponse(1, data)
    \/ \E err \in TokenErrors : TokenFailure(1, err)
    \/ \E data \in RestDatas : RestResponse(1, data)
    \/ \E err \in RestErrors : RestFailure(1, err)

SpecOne == Init /\ [][NextOne]_vars

(* ----------- SpecSoap: a single SOAP call, every short envelope -------- *)

\* longest envelope, in tags
MaxEnvLen == 3

Tags ==
    { OpenTag("soapenv", "Envelope"), OpenTag("s", "Envelope"),
      OpenTag("soapenv", "Header"), OpenTag("", "Header"),
      CloseTag("soapenv", "Header"), OpenTag("soapenv", "Body") }

Envelopes == UNION {[1..n -> Tags] : n \in 0..MaxEnvLen}

SoapErrors ==
    { HttpError(500, JString("Login Failed")),
      PlainError(<<"socket hang up">>) }

NextSoap ==
    \/ \E e \in Envelopes : CallMakeSoapRequest(1, e)
    \/ \E t \in Tokens : TokenResponse(1, [access_token |-> t])
    \/ \E err \in TokenErrors : TokenFailure(1, err)
    \/ SoapResponse(1, "<RetrieveResponseMsg/>")
    \/ \E err \in SoapErrors : SoapFailure(1, err)

SpecSoap == Init /\ [][NextSoap]_vars

(* -------- SpecProxy: the constructor, over every short proxy URL ------- *)

\* longest port, in characters
MaxPortLen == 4

PortChars == {"0", "3", "4", "8", "x"}
PortTexts == UNION {[1..n -> PortChars] : n \in 0..MaxPortLen}
ProxyHosts == {"proxy.corp", ""}

\* values of HTTP_PROXY / HTTPS_PROXY
ProxyUrls ==
    {<<>>}
    \cup {<<h>> : h \in ProxyHosts}
    \cup {<<h, ":">> \o d : h \in ProxyHosts, d \in PortTexts}
    \cup {<<sch, "://", h>> : sch \in {"http", "https"}, h \in ProxyHosts}
    \cup {<<sch, "://", h, ":">> \o d :
            sch \in {"http", "https"}, h \in ProxyHosts, d \in PortTexts}

NoClient == [constructed |-> FALSE, proxy |-> <<>>, axiosProxy |-> NoProxy]

InitProxy ==
    /\ client = NoClient
    /\ accessToken = Null
    /\ tokenExpiration = NullDate
    /\ now = 0
    /\ ticks = 0
    /\ calls = [c \in Calls |-> IdleCall]
    /\ tokenRequests = 0
    /\ tokenResponses = 0
    /\ cacheSrc = [token |-> 0, expiry |-> 0, at |-> 0, data |-> NoData]

\* `new SFMCAPIService(config)`
Construct(proxyUrl) ==
    /\ ~client.constructed
    /\ client' = NewClient(proxyUrl)
    /\ UNCHANGED <<accessToken, tokenExpiration, now, ticks, calls, tokenRequests,
                   tokenResponses, cacheSrc>>

NextProxy == \E u \in ProxyUrls : Construct(u)

SpecProxy == InitProxy /\ [][NextProxy]_vars

(* ============================== the claims ============================ *)

\* the token a call has obtained from getAccessToken, <<>> if none
TokenOf(call) ==
    IF call.kind = "getAccessToken" /\ call.outcome.kind = "return"
    THEN call.outcome.value
    ELSE IF call.kind = "makeRequest" /\ call.restReqs > 0
    THEN Tail(call.config.authorization)
    ELSE <<>>

\* the step in which call c is made
Starts(c) == calls[c].pc = "idle" /\ calls'[c].pc # "idle"

\* a token is cached and its recorded expiry is strictly later than the clock
Fresh == accessToken \notin {Null, Undefined, ""} /\ tokenExpiration > now

\* C1 (token reuse): a call made while a token is cached and its recorded expiry
\* is strictly later than the current time gets the cached token, sends nothing
\* to the token endpoint and leaves the cache as it is.
C1_TokenReuse ==
    [][\A c \in Calls :
         (Starts(c) /\ Fresh) =>
            /\ tokenRequests' = tokenRequests
            /\ calls'[c].tokReqs = 0
            /\ TokenOf(calls'[c]) = <<accessToken>>
            /\ accessToken' = accessToken
            /\ tokenExpiration' = tokenExpiration]_vars

\* two calls, one after the other and both before the cached expiry: both got the
\* same token and the token endpoint was asked once
C1_Witness ==
    /\ calls[1].pc = "done" /\ calls[1].tokReqs = 1
    /\ calls[2].pc = "done" /\ calls[2].tokReqs = 0
    /\ calls[1].kind = "getAccessToken" /\ calls[2].kind = "getAccessToken"
    /\ TokenOf(calls[2]) = TokenOf(calls[1]) /\ TokenOf(calls[2]) = <<accessToken>>
    /\ tokenRequests = 1
    /\ now > cacheSrc.at /\ now < tokenExpiration

\* C2 (token refresh): a call made with no cached token, or at or past the cached
\* expiry, sends exactly one request to the token endpoint; when that request
\* succeeds, the cached token and the cached expiry both come from its response,
\* and the caller gets that token.
C2_TokenRefresh ==
    [][\A c \in Calls :
         /\ (Starts(c) /\ ~Fresh) =>
               /\ tokenRequests' = tokenRequests + 1
               /\ calls'[c].pc = "awaitToken" /\ calls'[c].tokReqs = 1
         /\ calls[c].pc = "awaitToken" => calls[c].tokReqs = 1
         /\ (calls[c].pc = "awaitToken" /\ calls'[c].pc # "awaitToken"
                /\ calls'[c].outcome.kind # "throw") =>
               /\ tokenRequests' = tokenRequests /\ calls'[c].tokReqs = 1
               /\ tokenResponses' = tokenResponses + 1
               /\ cacheSrc'.token = tokenResponses' /\ cacheSrc'.expiry = tokenResponses'
               /\ TokenOf(calls'[c]) = <<accessToken'>>
               /\ accessToken' = cacheSrc'.data.access_token
               /\ tokenExpiration' >= now - SafetyMargin * MsPerSecond]_vars

\* a first call cached a token, a second call was made exactly at the cached
\* expiry and replaced it
C2_Witness ==
    /\ calls[1].pc = "done" /\ calls[1].tokReqs = 1 /\ TokenOf(calls[1]) = <<"tokB">>
    /\ calls[2].pc = "done" /\ calls[2].tokReqs = 1 /\ TokenOf(calls[2]) = <<"tokA">>
    /\ now = 1080 * MsPerSecond /\ cacheSrc.at = now
    /\ accessToken = "tokA" /\ tokenExpiration = now + 1140 * MsPerSecond
    /\ tokenRequests = 2 /\ cacheSrc.token = 2 /\ cacheSrc.expiry = 2

\* C3 (concurrent refresh): calls that pass the cache check before any of them
\* has refreshed each send a request of their own; the cache holds what the 2xx
\* answer handled last delivered, token and expiry from that one answer.
C3_ConcurrentRefresh ==
    /\ \A c \in Calls : calls[c].pc = "awaitToken" => calls[c].tokReqs = 1
    /\ tokenRequests = Cardinality({c \in Calls : calls[c].tokReqs = 1})
    /\ cacheSrc.token = cacheSrc.expiry
    /\ cacheSrc.token = tokenResponses
    /\ tokenResponses > 0 =>
          /\ accessToken = cacheSrc.data.access_token
          /\ tokenExpiration = cacheSrc.at
                + ((IF "expires_in" \in DOMAIN cacheSrc.data
                    THEN cacheSrc.data.expires_in ELSE DefaultExpiresIn)
                   - SafetyMargin) * MsPerSecond

\* two calls raced past the empty cache, both refreshed, and the second answer
\* overwrote the first
C3_Witness ==
    /\ ticks = 0
    /\ calls[1].tokReqs = 1 /\ calls[2].tokReqs = 1 /\ tokenRequests = 2
    /\ TokenOf(calls[1]) = <<"tokA">> /\ TokenOf(calls[2]) = <<"tokB">>
    /\ accessToken = "tokB" /\ tokenExpiration = 1080 * MsPerSecond
    /\ tokenResponses = 2

\* the cached token came from a 2xx answer that declared no expires_in
DefaultLifetime == tokenResponses > 0 /\ "expires_in" \notin DOMAIN cacheSrc.data

\* C4 (expiry safety margin): when the cached token came from an answer that
\* declared expires_in = T, the cached expiry is the acquisition time plus T - 60
\* seconds, which is strictly before the token expires upstream.
C4_ExpiryMargin ==
    (tokenResponses > 0 /\ "expires_in" \in DOMAIN cacheSrc.data) =>
        /\ tokenExpiration = cacheSrc.at + (cacheSrc.data.expires_in - 60) * 1000
        /\ tokenExpiration < cacheSrc.at + cacheSrc.data.expires_in * 1000

\* C5 (default TTL), as claimed: with expires_in omitted, a call made less than
\* 1140 s after acquisition is a cache hit and asks the token endpoint nothing.
C5_DefaultTtl ==
    [][\A c \in Calls :
         (Starts(c) /\ DefaultLifetime /\ Truthy(accessToken)
             /\ now < cacheSrc.at + 1140 * 1000) =>
            tokenRequests' = tokenRequests]_vars

\* C5, amended: with expires_in omitted, the token is valid for 1080 s from
\* acquisition: a call is a cache hit exactly when it is made less than 1080 s
\* after acquisition.
C5_DefaultTtl1080 ==
    [][\A c \in Calls :
         (Starts(c) /\ DefaultLifetime /\ Truthy(accessToken)) =>
            IF now < cacheSrc.at + 1080 * 1000
            THEN /\ tokenRequests' = tokenRequests
                 /\ TokenOf(calls'[c]) = <<accessToken>>
            ELSE /\ tokenRequests' = tokenRequests + 1
                 /\ calls'[c].pc = "awaitToken"]_vars

\* a call made 1020 s after a token without expires_in was acquired was a hit
C5_Witness ==
    /\ DefaultLifetime
    /\ calls[2].pc = "done" /\ calls[2].tokReqs = 0
    /\ TokenOf(calls[2]) = <<accessToken>>
    /\ now = cacheSrc.at + 1020 * 1000
    /\ tokenRequests = 1

\* C6 (REST error propagation): a non-2xx answer to the REST request makes the
\* call throw a message holding the status code and the serialized body; no
\* answer at all makes it throw the transport error's message, with no status.
C6_RestErrorPropagation ==
    \A c \in Calls :
        LET call == calls[c]
            err == call.received.err
        IN (call.received.from = "rest" /\ ~call.received.ok) =>
              /\ call.pc = "done" /\ call.outcome.kind = "throw"
              /\ err.hasResponse =>
                    /\ Contains(call.outcome.value, <<ToString(err.status)>>)
                    /\ Contains(call.outcome.value, JSONstringify(err.data))
                    /\ err.data = JObject("message", "invalid token") =>
                          Contains(call.outcome.value, <<"invalid token">>)
              /\ ~err.hasResponse =>
                    /\ Contains(call.outcome.value, err.message)
                    /\ \A e \in RestErrors :
                          ~Contains(call.outcome.value, <<ToString(e.status)>>)

\* the REST endpoint answered 401 {"message":"invalid token"} and the call threw
C6_Witness ==
    /\ calls[1].received = Answer("rest", FALSE,
                                  HttpError(401, JObject("message", "invalid token")))
    /\ calls[1].outcome =
          [kind |-> "throw",
           value |-> <<"SFMC API error (", "401", "): ",
                       "{\"", "message", "\":\"", "invalid token", "\"}">>]

\* C7 (auth failure detail): a non-2xx answer of the token endpoint makes
\* getAccessToken throw a message holding the status code and the body; no
\* answer makes it throw the network error's message; a 2xx answer without
\* access_token makes it throw instead of returning an empty token.
C7_AuthFailureDetail ==
    \A c \in Calls :
        LET call == calls[c]
            err == call.received.err
        IN (call.kind = "getAccessToken" /\ call.received.from = "token") =>
              /\ (~call.received.ok /\ err.hasResponse) =>
                    /\ call.outcome.kind = "throw"
                    /\ Contains(call.outcome.value, <<ToString(err.status)>>)
                    /\ JTruthy(err.data) =>
                          Contains(call.outcome.value, JSONstringify(err.data))
              /\ (~call.received.ok /\ ~err.hasResponse) =>
                    /\ call.outcome.kind = "throw"
                    /\ Contains(call.outcome.value, err.message)
              /\ (call.received.ok /\ call.outcome.kind = "return") =>
                    call.outcome.value \notin {<<Null>>, <<Undefined>>, <<"">>}
              /\ call.outcome.kind = "throw" =>
                    Head(call.outcome.value) = "SFMC Authentication Error: "

\* exactly one slash between the base and the path
OneLeadingSlash(endpoint) ==
    IF endpoint # <<>> /\ Head(endpoint) = "/" THEN endpoint ELSE <<"/">> \o endpoint

\* C8 (endpoint normalization), as claimed: the request URL is restBaseUri
\* followed by the endpoint with exactly one leading slash.
C8_EndpointNormalized ==
    \A c \in Calls :
        calls[c].restReqs > 0 =>
            calls[c].config.url =
                <<"https://", "rest.example.com">> \o OneLeadingSlash(calls[c].args.endpoint)

\* C8, amended: the request URL is restBaseUri followed by the endpoint as
\* given; a missing leading slash is not added.
C8_EndpointVerbatim ==
    \A c \in Calls :
        calls[c].restReqs > 0 =>
            /\ calls[c].config.url =
                  <<"https://", "rest.example.com">> \o calls[c].args.endpoint
            /\ Head(calls[c].args.endpoint) # "/" =>
                  calls[c].config.url # <<"https://", "rest.example.com", "/", "data/v1/foo">>

\* endpoint 'data/v1/foo' was sent to {restBaseUri}data/v1/foo
C8_Witness ==
    /\ calls[1].pc = "awaitRest"
    /\ calls[1].args.endpoint = <<"data/v1/foo">>
    /\ calls[1].config.url = <<"https://", "rest.example.com", "data/v1/foo">>

\* C9 (body suppression): the REST request carries a body only when the method,
\* in any letter case, is POST, PUT or PATCH; with GET or DELETE a supplied body
\* is not sent and the request is sent all the same.
C9_BodySuppression ==
    \A c \in Calls :
        LET call == calls[c]
            withBody == {"POST", "post", "Post", "PUT", "put", "Put",
                         "PATCH", "patch", "Patch"}
        IN /\ call.restReqs > 0 =>
                 /\ call.config.data # JUndefined =>
                       call.args.method \in withBody /\ call.config.data = call.args.data
                 /\ (call.args.method \in withBody /\ call.args.data # JUndefined) =>
                       call.config.data = call.args.data
           /\ (call.kind = "makeRequest" /\ call.args.method \notin withBody) =>
                 /\ call.config.data = JUndefined
                 /\ call.outcome.kind = "throw" =>
                       \/ call.received.from = "token" /\ call.restReqs = 0
                       \/ call.received.from = "rest" /\ ~call.received.ok
                 /\ call.pc = "awaitRest" => call.restReqs = 1

\* a GET with a body was sent, without the body
C9_Witness ==
    /\ calls[1].pc = "awaitRest" /\ calls[1].restReqs = 1
    /\ calls[1].args.method = "GET" /\ calls[1].args.data = JObject("name", "x")
    /\ calls[1].config.method = "get" /\ calls[1].config.data = JUndefined

\* the first opening tag named `name`, 0 if there is none
FirstOpen(envelope, name) ==
    IF \E i \in 1..Len(envelope) : envelope[i].k = "open" /\ envelope[i].n = name
    THEN CHOOSE i \in 1..Len(envelope) :
            /\ envelope[i].k = "open" /\ envelope[i].n = name
            /\ \A j \in 1..(i - 1) : ~(envelope[j].k = "open" /\ envelope[j].n = name)
    ELSE 0

\* `out` is `env` with the `n` elements `out[i+1] .. out[i+n]` added after env[i]
AddedAfter(env, out, i, n) ==
    /\ Len(out) = Len(env) + n
    /\ \A j \in 1..i : out[j] = env[j]
    /\ \A j \in (i + 1)..Len(env) : out[j + n] = env[j]

\* C10 (SOAP auth injection): the envelope that is sent is the caller's envelope
\* with <fueloauth>TOKEN</fueloauth> added: right after the opening header tag
\* (any prefix) when there is one, otherwise inside a new header that holds
\* nothing else and is the first child of the envelope element.
C10_SoapAuthInjection ==
    \A c \in Calls :
        LET env == calls[c].args.envelope
            out == calls[c].config.body
            h == FirstOpen(env, "Header")
            e == FirstOpen(env, "Envelope")
            fuel == <<[k |-> "open", p |-> "", n |-> "fueloauth"],
                      [k |-> "text", p |-> "", n |-> accessToken],
                      [k |-> "close", p |-> "", n |-> "fueloauth"]>>
        IN (calls[c].kind = "makeSoapRequest" /\ calls[c].restReqs > 0) =>
              /\ h > 0 => /\ AddedAfter(env, out, h, 3)
                          /\ SubSeq(out, h + 1, h + 3) = fuel
              /\ (h = 0 /\ e > 0) =>
                    /\ AddedAfter(env, out, e, 5)
                    /\ out[e + 1].k = "open" /\ out[e + 1].n = "Header"
                    /\ SubSeq(out, e + 2, e + 4) = fuel
                    /\ out[e + 5] = [out[e + 1] EXCEPT !.k = "close"]

\* an envelope with an empty header was sent with the token inside that header
C10_Witness ==
    /\ calls[1].pc = "awaitSoap"
    /\ calls[1].args.envelope = <<OpenTag("soapenv", "Envelope"),
                                  OpenTag("soapenv", "Header"),
                                  CloseTag("soapenv", "Header")>>
    /\ calls[1].config.body = <<OpenTag("soapenv", "Envelope"),
                                OpenTag("soapenv", "Header"),
                                OpenTag("", "fueloauth"), Text("tokA"),
                                CloseTag("", "fueloauth"),
                                CloseTag("soapenv", "Header")>>

\* the text of `u` reads scheme://host or scheme://host:port
ReadsAsProxy(u) ==
    /\ Len(u) >= 3 /\ u[1] \in {"http", "https"} /\ u[2] = "://" /\ u[3] # ""
    /\ Len(u) > 3 => u[4] = ":"
    /\ \A i \in 5..Len(u) : u[i] \in {"0", "1", "2", "3", "4", "5", "6", "7", "8", "9"}
    /\ ParseInt(SubSeq(u, 5, Len(u))) <= 65535

\* the text of `u` is no URL: no scheme, no host, or a port that is no number
ReadsAsNoUrl(u) ==
    \/ Len(u) = 1
    \/ /\ Len(u) >= 3 /\ u[2] = "://"
       /\ \/ u[3] = ""
          \/ \E i \in 5..Len(u) : u[i] \notin {"0", "1", "2", "3", "4", "5", "6", "7", "8", "9"}

\* C11 (proxy parse failure): constructing the client never throws; with an
\* unparsable proxy URL the proxy configuration is absent, as with no proxy
\* configured; with a parsable URL the host, the port (80 when the URL has none)
\* and the scheme (colon stripped) are those of the URL.
C11_ProxyConfig ==
    client.constructed =>
        LET u == client.proxy
            cfg == client.axiosProxy
        IN /\ ~cfg.thrown
           /\ (u = <<>> \/ ReadsAsNoUrl(u)) =>
                 cfg = [thrown |-> FALSE, set |-> FALSE, host |-> "", port |-> 0,
                        protocol |-> <<>>]
           /\ ReadsAsProxy(u) =>
                 /\ cfg.set
                 /\ cfg.host = u[3]
                 /\ cfg.protocol = <<u[1]>>
                 /\ cfg.port = IF Len(u) <= 4 THEN 80 ELSE ParseInt(SubSeq(u, 5, Len(u)))

\* the step in which call c, waiting in `at`, fails
Fails(c, at) ==
    calls[c].pc = at /\ calls'[c].pc = "done" /\ calls'[c].outcome.kind = "throw"

C13_RestFailureFrame ==
    [][\A c \in Calls :
         Fails(c, "awaitRest") =>
            /\ accessToken' = accessToken
            /\ tokenExpiration' = tokenExpiration
            /\ cacheSrc' = cacheSrc
            /\ \A b \in Calls \ {c} : calls'[b] = calls[b]]_vars

\* a REST request timed out while another call was waiting for its REST answer,
\* and the token both had used is still cached and fresh
C13_Witness ==
    /\ calls[1].received = Answer("rest", FALSE, PlainError(<<"timeout of 30000ms exceeded">>))
    /\ calls[1].outcome.kind = "throw"
    /\ calls[2].pc = "awaitRest" /\ calls[2].kind = "makeRequest"
    /\ accessToken = "tokA" /\ TokenOf(calls[1]) = <<"tokA">> /\ TokenOf(calls[2]) = <<"tokA">>
    /\ tokenExpiration > now

\* what the token endpoint told call c, as text
AuthDiagnostic(call) ==
    IF call.received.ok THEN <<"No access token received from SFMC">>
    ELSE IF call.received.err.hasResponse /\ JTruthy(call.received.err.data)
    THEN JSONstringify(call.received.err.data)
    ELSE call.received.err.message

\* C14 (auth failure inside REST dispatch), as claimed: when the token cannot be
\* obtained, makeRequest sends no REST request and throws an error that holds
\* the diagnostic text of the authentication error, and afterwards no usable
\* token is cached.
C14_AuthFailureNoToken ==
    [][\A c \in Calls :
         (calls[c].kind = "makeRequest" /\ Fails(c, "awaitToken")) =>
            /\ calls'[c].restReqs = 0
            /\ Contains(calls'[c].outcome.value, AuthDiagnostic(calls'[c]))
            /\ ~(accessToken' \notin {Null, Undefined, ""} /\ tokenExpiration' > now')]_vars

\* C14, amended: when the token cannot be obtained, makeRequest sends no REST
\* request and throws an error that holds the diagnostic text of the
\* authentication error; a usable token is cached afterwards only if another
\* call's refresh had cached it, and the failure has left it as it was.
C14_AuthFailure ==
    [][\A c \in Calls :
         (calls[c].kind = "makeRequest" /\ Fails(c, "awaitToken")) =>
            /\ calls'[c].restReqs = 0
            /\ Contains(calls'[c].outcome.value, <<"SFMC Authentication Error: ">>)
            /\ Contains(calls'[c].outcome.value, AuthDiagnostic(calls'[c]))
            /\ (accessToken' \notin {Null, Undefined, ""} /\ tokenExpiration' > now') =>
                  /\ accessToken' = accessToken /\ tokenExpiration' = tokenExpiration
                  /\ cacheSrc' = cacheSrc /\ cacheSrc.token > 0
                  /\ \E b \in Calls \ {c} : calls[b].tokReqs = 1]_vars

\* a makeRequest call failed on a 401 of the token endpoint without sending a
\* REST request; no usable token is cached and the next call asks for one
C14_Witness ==
    /\ calls[1].kind = "makeRequest" /\ calls[1].pc = "done"
    /\ calls[1].received = Answer("token", FALSE,
                                  HttpError(401, JObject("error", "invalid_client")))
    /\ calls[1].restReqs = 0
    /\ Contains(calls[1].outcome.value, <<"invalid_client">>)
    /\ accessToken = Null
    /\ calls[2].pc = "awaitToken" /\ tokenRequests = 2

====
